---- MODULE Spec2Model ----
(***************************************************************************)
(* Model of the TestPoint registry of PumpHouseBoss:                       *)
(*   src/variants/phb-test/components/phb-test/phb-test.h  (class phb_test)*)
(*                                                                         *)
(* Numbers.  The C++ floats are modelled as integers counting hundredths:  *)
(* 500.0 Hz is 50000, 25.0 % is 2500 and the level 0.25 is 25.  The only   *)
(* arithmetic of the class, duty_cycle / 100.0f, is the integer division   *)
(* by 100 of such a number; the values used are whole percents and whole   *)
(* hertz, for which that division is exact.                                *)
(*                                                                         *)
(* External objects.  The registry only borrows the ESPHome objects        *)
(* inputTPk, outputTPk, numTPkDutyCycle, numTPkFrequency and switchTPk     *)
(* (k = 0..7).  A pointer to the object of test point k is modelled as the *)
(* integer k, the null pointer as NULL.  outputTP[k] records what the      *)
(* output driver has last been commanded: turn_on / turn_off, the          *)
(* frequency of the last update_frequency, the level of the last set_level.*)
(***************************************************************************)
EXTENDS Integers, Sequences, FiniteSets, TLC

VARIABLES
    DEF_TEST_POINTS,   \* the build-time number of test points (__CONTROL_POINTS__)
    _InputArray,       \* the five binding arrays, index -> pointer
    _OutputArray,
    _DutyCycleArray,
    _FrequencyArray,
    _SwitchArray,
    _Initialized,      \* the setup-done flag
    inputTP,           \* inputTPk.state          (BinarySensor)
    outputTP,          \* outputTPk               (LEDCOutput), as commanded
    numTPDutyCycle,    \* numTPkDutyCycle.state   (TemplateNumber)
    numTPFrequency,    \* numTPkFrequency.state   (TemplateNumber)
    switchTP,          \* switchTPk.state         (TemplateSwitch)
    call,              \* the call that returned last, with what it returned
    lastTransition,    \* per test point, the last of mTPEnable / mTPDisable run on it
    cmds,              \* the commands that call issued to output drivers, in order
    fault,             \* TRUE once a call has dereferenced a null binding
    ctx                \* the execution contexts: how calls are scheduled, and where
                       \* a call that runs step by step stands

bindings == <<_InputArray, _OutputArray, _DutyCycleArray, _FrequencyArray, _SwitchArray>>
objects  == <<inputTP, outputTP, numTPDutyCycle, numTPFrequency, switchTP>>
vars     == <<DEF_TEST_POINTS, bindings, _Initialized, objects, call, lastTransition,
             cmds, fault, ctx>>

\* The largest number of test points setup() has a binding for (cases 0..7).
MAX_TEST_POINTS == 8

\* The largest build-time count the model explores (one more than supported).
MaxBuild == 9

\* The build-time counts explored: the smallest, the largest supported one and
\* the unsupported ones up to MaxBuild.
Builds == {1} \cup (MAX_TEST_POINTS .. MaxBuild)

\* The null pointer the binding arrays are initialised with.
NULL == -1

\* The statically named external objects: test points 0..7.
TP == 0 .. (MAX_TEST_POINTS - 1)

\* Values of the frequency numbers (hundredths of Hz): 500.0 Hz, 1000.0 Hz.
FreqVals == {50000, 100000}

\* Values of the duty-cycle numbers (hundredths of a percent): 25.0 %, 80.0 %.
DutyVals == {2500, 8000}

\* The test points whose external objects change in the explored behaviours.
ActiveTP == {0}

\* The indices callers pass: a negative one, a bound one, the first one out of
\* range, and index 8 (out of range up to 8 test points, unbound above).
Probe == {0 - 1, 0, DEF_TEST_POINTS, MAX_TEST_POINTS}

----------------------------------------------------------------------------
(* Pure parts of the class *)

\* The range guard every accessor starts with.
InvalidIndex(idx) == idx < 0 \/ idx >= DEF_TEST_POINTS

\* duty_cycle / 100.0f
Level(duty_cycle) == duty_cycle \div 100

\* The switch of setup() with case 1 copied from case 0 and not renamed: slot 1
\* is bound to the objects of test point 0.
BindCase_Aliased(i, old) == IF i \in 0 .. 7 THEN (IF i = 1 THEN 0 ELSE i) ELSE old

\* One pass of the switch statement of setup(): cases 0..7 bind test point i,
\* case 8 logs, default does nothing.
BindCase(i, old) == IF i \in 0 .. 7 THEN i ELSE old

\* The array the loop of setup() leaves.
BindAll(arr) == [i \in DOMAIN arr |-> BindCase(i, arr[i])]

\* setup() with its guard inverted: if(!_Initialized) return;
DoSetup_InvertedGuard ==
    IF ~_Initialized
       THEN [input |-> _InputArray, output |-> _OutputArray, duty |-> _DutyCycleArray,
             frequency |-> _FrequencyArray, switch |-> _SwitchArray,
             initialized |-> _Initialized]
       ELSE [input |-> BindAll(_InputArray), output |-> BindAll(_OutputArray),
             duty |-> BindAll(_DutyCycleArray), frequency |-> BindAll(_FrequencyArray),
             switch |-> BindAll(_SwitchArray), initialized |-> TRUE]

\* What setup() leaves in the five arrays and the flag.
DoSetup ==
    IF _Initialized
       THEN [input |-> _InputArray, output |-> _OutputArray, duty |-> _DutyCycleArray,
             frequency |-> _FrequencyArray, switch |-> _SwitchArray,
             initialized |-> _Initialized]
       ELSE [input |-> BindAll(_InputArray), output |-> BindAll(_OutputArray),
             duty |-> BindAll(_DutyCycleArray), frequency |-> BindAll(_FrequencyArray),
             switch |-> BindAll(_SwitchArray), initialized |-> TRUE]

\* What the getters return for an index whose binding is not null.
mIsEnabledValue(idx) ==
    IF InvalidIndex(idx) THEN FALSE ELSE switchTP[_SwitchArray[idx]]

mGetFrequencyValue(idx) ==
    IF InvalidIndex(idx) THEN 0 ELSE numTPFrequency[_FrequencyArray[idx]]

\* mGetDutyCycle's read copied from mGetFrequency with the array left unrenamed:
\* it returns the state of the frequency number.
mGetDutyCycleValue_CopyPaste(idx) ==
    IF InvalidIndex(idx) THEN 0 ELSE numTPFrequency[_FrequencyArray[idx]]

mGetDutyCycleValue(idx) ==
    IF InvalidIndex(idx) THEN 0 ELSE numTPDutyCycle[_DutyCycleArray[idx]]

mGetInputStateValue(idx) ==
    IF InvalidIndex(idx) THEN FALSE ELSE inputTP[_InputArray[idx]]

\* A command issued to the output driver of test point tp.
Cmd(tp, name, val) == [tp |-> tp, cmd |-> name, val |-> val]

Setters == {"mSetFrequency", "mSetDutyCycle"}

Transitions == {"mTPEnable", "mTPDisable"}

\* The record of a returned call.  prev remembers the call before it when both
\* are setters of the same index (what "set f, then set d, then enable" needs)
\* or both are transitions of the same index ("enable right after disable",
\* "enable twice in a row").
Ret(op, idx, arg, rb, rf) ==
    [op |-> op, idx |-> idx, arg |-> arg, retBool |-> rb, retFloat |-> rf,
     prev |-> IF \/ op \in Setters /\ call.op \in Setters /\ call.op # op /\ call.idx = idx
                 \/ op \in Transitions /\ call.op \in Transitions /\ call.idx = idx
                 THEN [op |-> call.op, arg |-> call.arg]
                 ELSE [op |-> "", arg |-> 0]]

\* The execution contexts of the single-threaded reference design: one caller,
\* every call runs to its end before the next starts.
Sequential == [mode |-> "sequential", setPc |-> "idle", enPc |-> "idle", arg |-> 0, freq |-> 0]

----------------------------------------------------------------------------
Init ==
    /\ DEF_TEST_POINTS \in Builds
    /\ _InputArray     = [i \in 0 .. (DEF_TEST_POINTS - 1) |-> NULL]
    /\ _OutputArray    = [i \in 0 .. (DEF_TEST_POINTS - 1) |-> NULL]
    /\ _DutyCycleArray = [i \in 0 .. (DEF_TEST_POINTS - 1) |-> NULL]
    /\ _FrequencyArray = [i \in 0 .. (DEF_TEST_POINTS - 1) |-> NULL]
    /\ _SwitchArray    = [i \in 0 .. (DEF_TEST_POINTS - 1) |-> NULL]
    /\ _Initialized = FALSE
    /\ inputTP        = [k \in TP |-> FALSE]
    /\ outputTP       = [k \in TP |-> [on |-> FALSE, frequency |-> 0, level |-> 0]]
    /\ numTPDutyCycle = [k \in TP |-> 0]
    /\ numTPFrequency = [k \in TP |-> 0]
    /\ switchTP       = [k \in TP |-> FALSE]
    /\ call = [op |-> "new", idx |-> 0, arg |-> 0, retBool |-> FALSE, retFloat |-> 0,
               prev |-> [op |-> "", arg |-> 0]]
    /\ lastTransition = [k \in TP |-> "none"]
    /\ cmds = <<>>
    /\ fault = FALSE
    /\ ctx = Sequential

----------------------------------------------------------------------------
(* Initialisation *)

\* void setup() override
setup ==
    /\ ~fault
    /\ _InputArray'     = DoSetup.input
    /\ _OutputArray'    = DoSetup.output
    /\ _DutyCycleArray' = DoSetup.duty
    /\ _FrequencyArray' = DoSetup.frequency
    /\ _SwitchArray'    = DoSetup.switch
    /\ _Initialized'    = DoSetup.initialized
    /\ call' = Ret("setup", 0, 0, FALSE, 0)
    /\ cmds' = <<>>
    /\ UNCHANGED <<ctx, DEF_TEST_POINTS, objects, lastTransition, fault>>

\* mGet that sets the flag on first use without running setup(): the instance
\* is handed out as initialized with every binding still null.
mGet_FlagOnly ==
    /\ ~fault
    /\ _Initialized' = TRUE
    /\ call' = Ret("mGet", 0, 0, FALSE, 0)
    /\ cmds' = <<>>
    /\ UNCHANGED <<ctx, DEF_TEST_POINTS, bindings, objects, lastTransition, fault>>

\* static phb_test& mGet(): setup() on first use, then the flag is set again.
mGet ==
    /\ ~fault
    /\ IF ~_Initialized
          THEN /\ _InputArray'     = DoSetup.input
               /\ _OutputArray'    = DoSetup.output
               /\ _DutyCycleArray' = DoSetup.duty
               /\ _FrequencyArray' = DoSetup.frequency
               /\ _SwitchArray'    = DoSetup.switch
               /\ _Initialized'    = TRUE
          ELSE UNCHANGED <<bindings, _Initialized>>
    /\ call' = Ret("mGet", 0, 0, FALSE, 0)
    /\ cmds' = <<>>
    /\ UNCHANGED <<ctx, DEF_TEST_POINTS, objects, lastTransition, fault>>

----------------------------------------------------------------------------
(* Accessors *)

\* The values a call through a null binding may appear to return.
Garbage == {0} \cup FreqVals \cup DutyVals

\* A call that dereferences a null pointer: undefined behaviour.  The call traps
\* or carries on with whatever it read; the model records the fault, lets the
\* call return any value, and follows the execution no further.
Undefined(op, idx, arg) ==
    /\ fault' = TRUE
    /\ \E rb \in BOOLEAN, rf \in Garbage : call' = Ret(op, idx, arg, rb, rf)
    /\ cmds' = <<>>
    /\ UNCHANGED <<ctx, DEF_TEST_POINTS, bindings, _Initialized, objects, lastTransition>>

\* A call that returns without touching any object or binding.
Returns(op, idx, arg, rb, rf) ==
    /\ call' = Ret(op, idx, arg, rb, rf)
    /\ cmds' = <<>>
    /\ UNCHANGED <<ctx, DEF_TEST_POINTS, bindings, _Initialized, objects, lastTransition, fault>>

\* bool mIsEnabled(int idx)
mIsEnabled(idx) ==
    /\ ~fault
    /\ IF InvalidIndex(idx)
          THEN Returns("mIsEnabled", idx, 0, FALSE, 0)
          ELSE IF _SwitchArray[idx] = NULL
                  THEN Undefined("mIsEnabled", idx, 0)
                  ELSE Returns("mIsEnabled", idx, 0, mIsEnabledValue(idx), 0)

\* mTPEnable with the last two driver calls swapped: the level is set before
\* the frequency is updated.
mTPEnable_LevelFirst(idx) ==
    /\ ~fault
    /\ IF InvalidIndex(idx)
          THEN Returns("mTPEnable", idx, 0, FALSE, 0)
          ELSE IF \/ _OutputArray[idx] = NULL
                  \/ _FrequencyArray[idx] = NULL
                  \/ _DutyCycleArray[idx] = NULL
                  THEN Undefined("mTPEnable", idx, 0)
                  ELSE LET o == _OutputArray[idx]
                           f == numTPFrequency[_FrequencyArray[idx]]
                           l == Level(numTPDutyCycle[_DutyCycleArray[idx]])
                       IN  /\ outputTP' = [outputTP EXCEPT
                                             ![o] = [on |-> TRUE, frequency |-> f, level |-> l]]
                           /\ cmds' = << Cmd(o, "turn_on", 0),
                                         Cmd(o, "set_level", l),
                                         Cmd(o, "update_frequency", f) >>
                           /\ call' = Ret("mTPEnable", idx, 0, FALSE, 0)
                           /\ lastTransition' = [lastTransition EXCEPT ![o] = "mTPEnable"]
                           /\ UNCHANGED <<ctx, DEF_TEST_POINTS, bindings, _Initialized, fault,
                                          inputTP, numTPDutyCycle, numTPFrequency, switchTP>>

\* mTPEnable written as a toggle: a call that finds the output already on
\* turns it off instead of refreshing it.
mTPEnable_Toggle(idx) ==
    /\ ~fault
    /\ IF InvalidIndex(idx)
          THEN Returns("mTPEnable", idx, 0, FALSE, 0)
          ELSE IF \/ _OutputArray[idx] = NULL
                  \/ _FrequencyArray[idx] = NULL
                  \/ _DutyCycleArray[idx] = NULL
                  THEN Undefined("mTPEnable", idx, 0)
                  ELSE LET o == _OutputArray[idx]
                           f == numTPFrequency[_FrequencyArray[idx]]
                           l == Level(numTPDutyCycle[_DutyCycleArray[idx]])
                       IN  /\ IF outputTP[o].on
                                 THEN /\ outputTP' = [outputTP EXCEPT ![o].on = FALSE]
                                      /\ cmds' = << Cmd(o, "turn_off", 0) >>
                                 ELSE /\ outputTP' = [outputTP EXCEPT
                                            ![o] = [on |-> TRUE, frequency |-> f, level |-> l]]
                                      /\ cmds' = << Cmd(o, "turn_on", 0),
                                                    Cmd(o, "update_frequency", f),
                                                    Cmd(o, "set_level", l) >>
                           /\ call' = Ret("mTPEnable", idx, 0, FALSE, 0)
                           /\ lastTransition' = [lastTransition EXCEPT ![o] = "mTPEnable"]
                           /\ UNCHANGED <<ctx, DEF_TEST_POINTS, bindings, _Initialized, fault,
                                          inputTP, numTPDutyCycle, numTPFrequency, switchTP>>

\* void mTPEnable(int idx)
mTPEnable(idx) ==
    /\ ~fault
    /\ IF InvalidIndex(idx)
          THEN Returns("mTPEnable", idx, 0, FALSE, 0)
          ELSE IF \/ _OutputArray[idx] = NULL
                  \/ _FrequencyArray[idx] = NULL
                  \/ _DutyCycleArray[idx] = NULL
                  THEN Undefined("mTPEnable", idx, 0)
                  ELSE LET o == _OutputArray[idx]
                           f == numTPFrequency[_FrequencyArray[idx]]
                           l == Level(numTPDutyCycle[_DutyCycleArray[idx]])
                       IN  /\ outputTP' = [outputTP EXCEPT
                                             ![o] = [on |-> TRUE, frequency |-> f, level |-> l]]
                           /\ cmds' = << Cmd(o, "turn_on", 0),
                                         Cmd(o, "update_frequency", f),
                                         Cmd(o, "set_level", l) >>
                           /\ call' = Ret("mTPEnable", idx, 0, FALSE, 0)
                           /\ lastTransition' = [lastTransition EXCEPT ![o] = "mTPEnable"]
                           /\ UNCHANGED <<ctx, DEF_TEST_POINTS, bindings, _Initialized, fault,
                                          inputTP, numTPDutyCycle, numTPFrequency, switchTP>>

\* mTPDisable with the guard off by one, idx > DEF_TEST_POINTS: index
\* DEF_TEST_POINTS reads one element past the end of the array.
mTPDisable_OffByOne(idx) ==
    /\ ~fault
    /\ IF idx < 0 \/ idx > DEF_TEST_POINTS
          THEN Returns("mTPDisable", idx, 0, FALSE, 0)
          ELSE IF idx = DEF_TEST_POINTS \/ _OutputArray[idx] = NULL
                  THEN Undefined("mTPDisable", idx, 0)
                  ELSE LET o == _OutputArray[idx]
                       IN  /\ outputTP' = [outputTP EXCEPT ![o].on = FALSE]
                           /\ cmds' = << Cmd(o, "turn_off", 0) >>
                           /\ call' = Ret("mTPDisable", idx, 0, FALSE, 0)
                           /\ lastTransition' = [lastTransition EXCEPT ![o] = "mTPDisable"]
                           /\ UNCHANGED <<ctx, DEF_TEST_POINTS, bindings, _Initialized, fault,
                                          inputTP, numTPDutyCycle, numTPFrequency, switchTP>>

\* mTPDisable that also resets the configuration of the test point: the stored
\* frequency and duty cycle go back to zero with the output.
mTPDisable_ClearsConfig(idx) ==
    /\ ~fault
    /\ IF InvalidIndex(idx)
          THEN Returns("mTPDisable", idx, 0, FALSE, 0)
          ELSE IF \/ _OutputArray[idx] = NULL
                  \/ _FrequencyArray[idx] = NULL
                  \/ _DutyCycleArray[idx] = NULL
                  THEN Undefined("mTPDisable", idx, 0)
                  ELSE LET o == _OutputArray[idx]
                       IN  /\ outputTP' = [outputTP EXCEPT ![o].on = FALSE]
                           /\ numTPFrequency' =
                                 [numTPFrequency EXCEPT ![_FrequencyArray[idx]] = 0]
                           /\ numTPDutyCycle' =
                                 [numTPDutyCycle EXCEPT ![_DutyCycleArray[idx]] = 0]
                           /\ cmds' = << Cmd(o, "turn_off", 0) >>
                           /\ call' = Ret("mTPDisable", idx, 0, FALSE, 0)
                           /\ lastTransition' = [lastTransition EXCEPT ![o] = "mTPDisable"]
                           /\ UNCHANGED <<ctx, DEF_TEST_POINTS, bindings, _Initialized, fault,
                                          inputTP, switchTP>>

\* void mTPDisable(int idx)
mTPDisable(idx) ==
    /\ ~fault
    /\ IF InvalidIndex(idx)
          THEN Returns("mTPDisable", idx, 0, FALSE, 0)
          ELSE IF _OutputArray[idx] = NULL
                  THEN Undefined("mTPDisable", idx, 0)
                  ELSE LET o == _OutputArray[idx]
                       IN  /\ outputTP' = [outputTP EXCEPT ![o].on = FALSE]
                           /\ cmds' = << Cmd(o, "turn_off", 0) >>
                           /\ call' = Ret("mTPDisable", idx, 0, FALSE, 0)
                           /\ lastTransition' = [lastTransition EXCEPT ![o] = "mTPDisable"]
                           /\ UNCHANGED <<ctx, DEF_TEST_POINTS, bindings, _Initialized, fault,
                                          inputTP, numTPDutyCycle, numTPFrequency, switchTP>>

\* float mGetFrequency(int idx)
mGetFrequency(idx) ==
    /\ ~fault
    /\ IF InvalidIndex(idx)
          THEN Returns("mGetFrequency", idx, 0, FALSE, 0)
          ELSE IF _FrequencyArray[idx] = NULL
                  THEN Undefined("mGetFrequency", idx, 0)
                  ELSE Returns("mGetFrequency", idx, 0, FALSE, mGetFrequencyValue(idx))

\* mSetFrequency without its publish_state call (as mSetDutyCycle is written).
mSetFrequency_NoPublish(idx, frequency) ==
    /\ ~fault
    /\ IF InvalidIndex(idx)
          THEN Returns("mSetFrequency", idx, frequency, FALSE, 0)
          ELSE IF \/ _SwitchArray[idx] = NULL
                  \/ (switchTP[_SwitchArray[idx]] /\ _OutputArray[idx] = NULL)
                  THEN Undefined("mSetFrequency", idx, frequency)
                  ELSE LET o == _OutputArray[idx]
                       IN  /\ IF switchTP[_SwitchArray[idx]]
                                 THEN /\ outputTP' = [outputTP EXCEPT ![o].frequency = frequency]
                                      /\ cmds' = << Cmd(o, "update_frequency", frequency) >>
                                 ELSE /\ outputTP' = outputTP
                                      /\ cmds' = <<>>
                           /\ call' = Ret("mSetFrequency", idx, frequency, FALSE, 0)
                           /\ UNCHANGED <<ctx, DEF_TEST_POINTS, bindings, _Initialized, fault,
                                          lastTransition,
                                          inputTP, numTPDutyCycle, numTPFrequency, switchTP>>

\* mSetFrequency that starts the output when it propagates: an enabled test
\* point gets turn_on() before the new frequency.
mSetFrequency_TurnsOn(idx, frequency) ==
    /\ ~fault
    /\ IF InvalidIndex(idx)
          THEN Returns("mSetFrequency", idx, frequency, FALSE, 0)
          ELSE IF \/ _FrequencyArray[idx] = NULL
                  \/ _SwitchArray[idx] = NULL
                  \/ (switchTP[_SwitchArray[idx]] /\ _OutputArray[idx] = NULL)
                  THEN Undefined("mSetFrequency", idx, frequency)
                  ELSE LET o == _OutputArray[idx]
                       IN  /\ numTPFrequency' =
                                 [numTPFrequency EXCEPT ![_FrequencyArray[idx]] = frequency]
                           /\ IF switchTP[_SwitchArray[idx]]
                                 THEN /\ outputTP' = [outputTP EXCEPT
                                                        ![o].on = TRUE,
                                                        ![o].frequency = frequency]
                                      /\ cmds' = << Cmd(o, "turn_on", 0),
                                                    Cmd(o, "update_frequency", frequency) >>
                                 ELSE /\ outputTP' = outputTP
                                      /\ cmds' = <<>>
                           /\ call' = Ret("mSetFrequency", idx, frequency, FALSE, 0)
                           /\ UNCHANGED <<ctx, DEF_TEST_POINTS, bindings, _Initialized, fault,
                                          lastTransition,
                                          inputTP, numTPDutyCycle, switchTP>>

\* void mSetFrequency(int idx, float frequency)
mSetFrequency(idx, frequency) ==
    /\ ~fault
    /\ IF InvalidIndex(idx)
          THEN Returns("mSetFrequency", idx, frequency, FALSE, 0)
          ELSE IF \/ _FrequencyArray[idx] = NULL
                  \/ _SwitchArray[idx] = NULL
                  \/ (switchTP[_SwitchArray[idx]] /\ _OutputArray[idx] = NULL)
                  THEN Undefined("mSetFrequency", idx, frequency)
                  ELSE LET o == _OutputArray[idx]
                       IN  /\ numTPFrequency' =
                                 [numTPFrequency EXCEPT ![_FrequencyArray[idx]] = frequency]
                           /\ IF switchTP[_SwitchArray[idx]]
                                 THEN /\ outputTP' = [outputTP EXCEPT ![o].frequency = frequency]
                                      /\ cmds' = << Cmd(o, "update_frequency", frequency) >>
                                 ELSE /\ outputTP' = outputTP
                                      /\ cmds' = <<>>
                           /\ call' = Ret("mSetFrequency", idx, frequency, FALSE, 0)
                           /\ UNCHANGED <<ctx, DEF_TEST_POINTS, bindings, _Initialized, fault,
                                          lastTransition,
                                          inputTP, numTPDutyCycle, switchTP>>

\* float mGetDutyCycle(int idx)
mGetDutyCycle(idx) ==
    /\ ~fault
    /\ IF InvalidIndex(idx)
          THEN Returns("mGetDutyCycle", idx, 0, FALSE, 0)
          ELSE IF _DutyCycleArray[idx] = NULL
                  THEN Undefined("mGetDutyCycle", idx, 0)
                  ELSE Returns("mGetDutyCycle", idx, 0, FALSE, mGetDutyCycleValue(idx))

\* mSetDutyCycle without the test of the switch: the level goes to the output
\* driver whether or not the test point is enabled.
mSetDutyCycle_Unconditional(idx, duty_cycle) ==
    /\ ~fault
    /\ IF InvalidIndex(idx)
          THEN Returns("mSetDutyCycle", idx, duty_cycle, FALSE, 0)
          ELSE IF _SwitchArray[idx] = NULL \/ _OutputArray[idx] = NULL
                  THEN Undefined("mSetDutyCycle", idx, duty_cycle)
                  ELSE LET o == _OutputArray[idx]
                       IN  /\ outputTP' = [outputTP EXCEPT ![o].level = Level(duty_cycle)]
                           /\ cmds' = << Cmd(o, "set_level", Level(duty_cycle)) >>
                           /\ call' = Ret("mSetDutyCycle", idx, duty_cycle, FALSE, 0)
                           /\ UNCHANGED <<ctx, DEF_TEST_POINTS, bindings, _Initialized, fault,
                                          lastTransition,
                                          inputTP, numTPDutyCycle, numTPFrequency, switchTP>>

\* void mSetDutyCycle(int idx, float duty_cycle)
mSetDutyCycle(idx, duty_cycle) ==
    /\ ~fault
    /\ IF InvalidIndex(idx)
          THEN Returns("mSetDutyCycle", idx, duty_cycle, FALSE, 0)
          ELSE IF \/ _SwitchArray[idx] = NULL
                  \/ (switchTP[_SwitchArray[idx]] /\ _OutputArray[idx] = NULL)
                  THEN Undefined("mSetDutyCycle", idx, duty_cycle)
                  ELSE LET o == _OutputArray[idx]
                       IN  /\ IF switchTP[_SwitchArray[idx]]
                                 THEN /\ outputTP' = [outputTP EXCEPT
                                                        ![o].level = Level(duty_cycle)]
                                      /\ cmds' = << Cmd(o, "set_level", Level(duty_cycle)) >>
                                 ELSE /\ outputTP' = outputTP
                                      /\ cmds' = <<>>
                           /\ call' = Ret("mSetDutyCycle", idx, duty_cycle, FALSE, 0)
                           /\ UNCHANGED <<ctx, DEF_TEST_POINTS, bindings, _Initialized, fault,
                                          lastTransition,
                                          inputTP, numTPDutyCycle, numTPFrequency, switchTP>>

\* bool mGetInputState(int idx)
mGetInputState(idx) ==
    /\ ~fault
    /\ IF InvalidIndex(idx)
          THEN Returns("mGetInputState", idx, 0, FALSE, 0)
          ELSE IF _InputArray[idx] = NULL
                  THEN Undefined("mGetInputState", idx, 0)
                  ELSE Returns("mGetInputState", idx, 0, mGetInputStateValue(idx), 0)

----------------------------------------------------------------------------
(* The external objects.  Their state belongs to the firmware around the   *)
(* registry: the sensor reports its input, the switch and the numbers      *)
(* publish what the user or an automation sets.                            *)

\* An external object published a state; no registry call is involved.
Published ==
    /\ call' = Ret("publish_state", 0, 0, FALSE, 0)
    /\ cmds' = <<>>
    /\ UNCHANGED <<ctx, DEF_TEST_POINTS, bindings, _Initialized, fault, outputTP, lastTransition>>

\* switchTPk publishes a state.
SwitchPublish(k, b) ==
    /\ ~fault
    /\ switchTP[k] # b
    /\ switchTP' = [switchTP EXCEPT ![k] = b]
    /\ Published
    /\ UNCHANGED <<inputTP, numTPDutyCycle, numTPFrequency>>

\* inputTPk reports a state.
InputPublish(k, b) ==
    /\ ~fault
    /\ inputTP[k] # b
    /\ inputTP' = [inputTP EXCEPT ![k] = b]
    /\ Published
    /\ UNCHANGED <<switchTP, numTPDutyCycle, numTPFrequency>>

\* numTPkFrequency publishes a value set from outside the registry.
FrequencyPublish(k, v) ==
    /\ ~fault
    /\ numTPFrequency[k] # v
    /\ numTPFrequency' = [numTPFrequency EXCEPT ![k] = v]
    /\ Published
    /\ UNCHANGED <<switchTP, inputTP, numTPDutyCycle>>

\* numTPkDutyCycle publishes a value set from outside the registry.
DutyCyclePublish(k, v) ==
    /\ ~fault
    /\ numTPDutyCycle[k] # v
    /\ numTPDutyCycle' = [numTPDutyCycle EXCEPT ![k] = v]
    /\ Published
    /\ UNCHANGED <<switchTP, inputTP, numTPFrequency>>

----------------------------------------------------------------------------
Next ==
    \/ setup
    \/ mGet
    \/ \E idx \in Probe : mIsEnabled(idx)
    \/ \E idx \in Probe : mTPEnable(idx)
    \/ \E idx \in Probe : mTPDisable(idx)
    \/ \E idx \in Probe : mGetFrequency(idx)
    \/ \E idx \in Probe, v \in FreqVals : mSetFrequency(idx, v)
    \/ \E idx \in Probe : mGetDutyCycle(idx)
    \/ \E idx \in Probe, v \in DutyVals : mSetDutyCycle(idx, v)
    \/ \E idx \in Probe : mGetInputState(idx)
    \/ \E k \in ActiveTP, b \in BOOLEAN : SwitchPublish(k, b)
    \/ \E k \in ActiveTP, b \in BOOLEAN : InputPublish(k, b)
    \/ \E k \in ActiveTP, v \in FreqVals : FrequencyPublish(k, v)
    \/ \E k \in ActiveTP, v \in DutyVals : DutyCyclePublish(k, v)

Spec == Init /\ [][Next]_vars

----------------------------------------------------------------------------
(* Two execution contexts: one calls mSetFrequency(idx, v), the other       *)
(* mTPEnable(idx), on a host that runs them either one whole call at a time *)
(* (single-threaded, or one mutex around every accessor) or interleaved     *)
(* statement by statement.                                                  *)

\* The test point the two contexts work on.
RaceTP == 0

\* How the host schedules the two contexts.
Modes == {"atomic", "interleaved"}

\* A new instance on a host with two contexts, neither inside a call.
InitConcurrent ==
    /\ DEF_TEST_POINTS \in Builds
    /\ _InputArray     = [i \in 0 .. (DEF_TEST_POINTS - 1) |-> NULL]
    /\ _OutputArray    = [i \in 0 .. (DEF_TEST_POINTS - 1) |-> NULL]
    /\ _DutyCycleArray = [i \in 0 .. (DEF_TEST_POINTS - 1) |-> NULL]
    /\ _FrequencyArray = [i \in 0 .. (DEF_TEST_POINTS - 1) |-> NULL]
    /\ _SwitchArray    = [i \in 0 .. (DEF_TEST_POINTS - 1) |-> NULL]
    /\ _Initialized = FALSE
    /\ inputTP        = [k \in TP |-> FALSE]
    /\ outputTP       = [k \in TP |-> [on |-> FALSE, frequency |-> 0, level |-> 0]]
    /\ numTPDutyCycle = [k \in TP |-> 0]
    /\ numTPFrequency = [k \in TP |-> 0]
    /\ switchTP       = [k \in TP |-> FALSE]
    /\ call = [op |-> "new", idx |-> 0, arg |-> 0, retBool |-> FALSE, retFloat |-> 0,
               prev |-> [op |-> "", arg |-> 0]]
    /\ lastTransition = [k \in TP |-> "none"]
    /\ cmds = <<>>
    /\ fault = FALSE
    /\ \E m \in Modes : ctx = [Sequential EXCEPT !.mode = m]

\* The instance has been obtained and neither context has started a call.
Starting == call.op = "mGet" /\ ctx.setPc = "idle" /\ ctx.enPc = "idle"

\* A context is past the guards of its accessor: the index is in range (the
\* range test) and the slot is bound (the calls go through its pointers).
Entered(idx) ==
    /\ ~fault
    /\ _Initialized
    /\ ~InvalidIndex(idx)
    /\ _OutputArray[idx] # NULL
    /\ _FrequencyArray[idx] # NULL
    /\ _DutyCycleArray[idx] # NULL
    /\ _SwitchArray[idx] # NULL

\* mSetFrequency, first statement: _FrequencyArray[idx]->publish_state(frequency)
SetFrequencyPublish(idx, frequency) ==
    /\ ctx.mode = "interleaved"
    /\ ctx.setPc = "idle"
    /\ Entered(idx)
    /\ numTPFrequency' = [numTPFrequency EXCEPT ![_FrequencyArray[idx]] = frequency]
    /\ ctx' = [ctx EXCEPT !.setPc = "test", !.arg = frequency]
    /\ UNCHANGED <<DEF_TEST_POINTS, bindings, _Initialized, fault, call, cmds,
                   lastTransition, inputTP, outputTP, numTPDutyCycle, switchTP>>

\* mSetFrequency, the test: if (_SwitchArray[idx]->state); a switch that is
\* off ends the call.
SetFrequencyTest(idx) ==
    /\ ctx.mode = "interleaved"
    /\ ctx.setPc = "test"
    /\ IF switchTP[_SwitchArray[idx]]
          THEN /\ ctx' = [ctx EXCEPT !.setPc = "update"]
               /\ UNCHANGED <<call, cmds>>
          ELSE /\ ctx' = [ctx EXCEPT !.setPc = "idle", !.arg = 0]
               /\ call' = Ret("mSetFrequency", idx, ctx.arg, FALSE, 0)
               /\ cmds' = <<>>
    /\ UNCHANGED <<DEF_TEST_POINTS, bindings, _Initialized, fault, lastTransition, objects>>

\* mSetFrequency, inside the test: _OutputArray[idx]->update_frequency(frequency),
\* and the call returns.
SetFrequencyUpdate(idx) ==
    /\ ctx.mode = "interleaved"
    /\ ctx.setPc = "update"
    /\ outputTP' = [outputTP EXCEPT ![_OutputArray[idx]].frequency = ctx.arg]
    /\ ctx' = [ctx EXCEPT !.setPc = "idle", !.arg = 0]
    /\ call' = Ret("mSetFrequency", idx, ctx.arg, FALSE, 0)
    /\ cmds' = << Cmd(_OutputArray[idx], "update_frequency", ctx.arg) >>
    /\ UNCHANGED <<DEF_TEST_POINTS, bindings, _Initialized, fault, lastTransition,
                   inputTP, numTPDutyCycle, numTPFrequency, switchTP>>

\* mTPEnable, first statement: _OutputArray[idx]->turn_on()
EnableTurnOn(idx) ==
    /\ ctx.mode = "interleaved"
    /\ ctx.enPc = "idle"
    /\ Entered(idx)
    /\ outputTP' = [outputTP EXCEPT ![_OutputArray[idx]].on = TRUE]
    /\ lastTransition' = [lastTransition EXCEPT ![_OutputArray[idx]] = "mTPEnable"]
    /\ ctx' = [ctx EXCEPT !.enPc = "read"]
    /\ UNCHANGED <<DEF_TEST_POINTS, bindings, _Initialized, fault, call, cmds,
                   inputTP, numTPDutyCycle, numTPFrequency, switchTP>>

\* mTPEnable, second statement, the argument: _FrequencyArray[idx]->state is read
EnableReadFrequency(idx) ==
    /\ ctx.mode = "interleaved"
    /\ ctx.enPc = "read"
    /\ ctx' = [ctx EXCEPT !.enPc = "update", !.freq = numTPFrequency[_FrequencyArray[idx]]]
    /\ UNCHANGED <<DEF_TEST_POINTS, bindings, _Initialized, fault, call, cmds,
                   lastTransition, objects>>

\* mTPEnable, second statement, the call: update_frequency(the value read)
EnableUpdateFrequency(idx) ==
    /\ ctx.mode = "interleaved"
    /\ ctx.enPc = "update"
    /\ outputTP' = [outputTP EXCEPT ![_OutputArray[idx]].frequency = ctx.freq]
    /\ ctx' = [ctx EXCEPT !.enPc = "level"]
    /\ UNCHANGED <<DEF_TEST_POINTS, bindings, _Initialized, fault, call, cmds,
                   lastTransition, inputTP, numTPDutyCycle, numTPFrequency, switchTP>>

\* mTPEnable, third statement: set_level(_DutyCycleArray[idx]->state / 100.0f),
\* and the call returns.
EnableSetLevel(idx) ==
    /\ ctx.mode = "interleaved"
    /\ ctx.enPc = "level"
    /\ LET o == _OutputArray[idx]
           l == Level(numTPDutyCycle[_DutyCycleArray[idx]])
       IN  /\ outputTP' = [outputTP EXCEPT ![o].level = l]
           /\ cmds' = << Cmd(o, "turn_on", 0),
                         Cmd(o, "update_frequency", ctx.freq),
                         Cmd(o, "set_level", l) >>
    /\ ctx' = [ctx EXCEPT !.enPc = "idle", !.freq = 0]
    /\ call' = Ret("mTPEnable", idx, 0, FALSE, 0)
    /\ UNCHANGED <<DEF_TEST_POINTS, bindings, _Initialized, fault, lastTransition,
                   inputTP, numTPDutyCycle, numTPFrequency, switchTP>>

\* The instance is obtained once; the switch of the test point is left on or
\* off before the contexts start; then the two accessors run, whole calls on
\* an atomic host and statement by statement on an interleaved one.
NextConcurrent ==
    \/ ~_Initialized /\ mGet
    \/ \E b \in BOOLEAN : Starting /\ SwitchPublish(RaceTP, b)
    \/ \E v \in FreqVals : ctx.mode = "atomic" /\ _Initialized /\ mSetFrequency(RaceTP, v)
    \/ ctx.mode = "atomic" /\ _Initialized /\ mTPEnable(RaceTP)
    \/ \E v \in FreqVals : SetFrequencyPublish(RaceTP, v)
    \/ SetFrequencyTest(RaceTP)
    \/ SetFrequencyUpdate(RaceTP)
    \/ EnableTurnOn(RaceTP)
    \/ EnableReadFrequency(RaceTP)
    \/ EnableUpdateFrequency(RaceTP)
    \/ EnableSetLevel(RaceTP)

SpecConcurrent == InitConcurrent /\ [][NextConcurrent]_vars

----------------------------------------------------------------------------
(* Two test points in use: every accessor is called on index 0 and on       *)
(* index 1, and both switches are operated.  One frequency and one duty     *)
(* cycle are enough to tell a written test point from an untouched one.     *)

\* The two test points in use.
PairTP == {0, 1}

\* The least element of a set of numbers, as a set.
LeastOf(S) == {v \in S : \A w \in S : v <= w}

NextPair ==
    \/ mGet
    \/ \E idx \in PairTP : mIsEnabled(idx)
    \/ \E idx \in PairTP : mTPEnable(idx)
    \/ \E idx \in PairTP : mTPDisable(idx)
    \/ \E idx \in PairTP : mGetFrequency(idx)
    \/ \E idx \in PairTP, v \in LeastOf(FreqVals) : mSetFrequency(idx, v)
    \/ \E idx \in PairTP : mGetDutyCycle(idx)
    \/ \E idx \in PairTP, v \in LeastOf(DutyVals) : mSetDutyCycle(idx, v)
    \/ \E idx \in PairTP : mGetInputState(idx)
    \/ \E k \in PairTP, b \in BOOLEAN : SwitchPublish(k, b)

SpecPair == Init /\ [][NextPair]_vars

----------------------------------------------------------------------------
(* Vocabulary of the properties *)

\* The accessors of the registry.
AccessorOps == {"mIsEnabled", "mTPEnable", "mTPDisable", "mGetFrequency",
                "mSetFrequency", "mGetDutyCycle", "mSetDutyCycle", "mGetInputState"}

\* The operations of the registry.
RegistryOps == AccessorOps \cup {"setup", "mGet"}

\* idx is a valid index: 0 <= idx < N.
InRange(idx) == idx \in 0 .. (DEF_TEST_POINTS - 1)

\* idx is in range and its slot holds a binding in each of the five arrays.
Bound(idx) ==
    /\ InRange(idx)
    /\ _InputArray[idx] # NULL
    /\ _OutputArray[idx] # NULL
    /\ _DutyCycleArray[idx] # NULL
    /\ _FrequencyArray[idx] # NULL
    /\ _SwitchArray[idx] # NULL

\* idx is in range and its slot still holds the initial null pointers.
Unbound(idx) ==
    /\ InRange(idx)
    /\ _InputArray[idx] = NULL
    /\ _OutputArray[idx] = NULL
    /\ _DutyCycleArray[idx] = NULL
    /\ _FrequencyArray[idx] = NULL
    /\ _SwitchArray[idx] = NULL

\* The last call sent command name with value val to the output driver of tp.
Sent(c, tp, name, val) == \E i \in DOMAIN c : c[i] = Cmd(tp, name, val)

\* The last call sent a frequency or a level to the output driver of tp.
SentUpdate(c, tp) ==
    \E i \in DOMAIN c : c[i].tp = tp /\ c[i].cmd \in {"update_frequency", "set_level"}

\* The last call returned the default of an invalid index and commanded nothing.
DefaultReturn == call.retBool = FALSE /\ call.retFloat = 0 /\ cmds = <<>>

\* The five arrays as exactly one run of setup() on a new instance leaves them.
OneInitialization ==
    LET new == [i \in 0 .. (DEF_TEST_POINTS - 1) |-> NULL]
    IN  <<BindAll(new), BindAll(new), BindAll(new), BindAll(new), BindAll(new)>>

----------------------------------------------------------------------------
(* C1  Switch/enable consistency: right after mTPEnable(idx) on a bound     *)
(* index mIsEnabled(idx) returns true, and right after mTPDisable(idx) it   *)
(* returns false.                                                           *)
C1_SwitchEnableConsistency ==
    /\ (call.op = "mTPEnable" /\ Bound(call.idx)) => mIsEnabledValue(call.idx) = TRUE
    /\ (call.op = "mTPDisable" /\ Bound(call.idx)) => mIsEnabledValue(call.idx) = FALSE

(* C2  Duty-cycle read/write symmetry: right after mSetDutyCycle(idx, v) on *)
(* a bound index, enabled or not, mGetDutyCycle(idx) returns v.             *)
C2_DutyCycleReadBack ==
    (call.op = "mSetDutyCycle" /\ Bound(call.idx))
        => mGetDutyCycleValue(call.idx) = call.arg

(* C3  Frequency read/write symmetry: right after mSetFrequency(idx, v) on  *)
(* a bound index, enabled or not, mGetFrequency(idx) returns v.             *)
C3_FrequencyReadBack ==
    (call.op = "mSetFrequency" /\ Bound(call.idx))
        => mGetFrequencyValue(call.idx) = call.arg

\* C3's case: mSetFrequency has just run on a bound, enabled test point and
\* passed the value on to the output driver.
C3_Witness ==
    /\ call.op = "mSetFrequency"
    /\ Bound(call.idx)
    /\ mIsEnabledValue(call.idx)
    /\ call.arg \in FreqVals
    /\ Sent(cmds, _OutputArray[call.idx], "update_frequency", call.arg)

(* C4  Enable propagates the values set while disabled: when a disabled,   *)
(* bound index has just had its frequency set to f and its duty cycle set   *)
(* to d, one right after the other in either order, the mTPEnable(idx) that *)
(* follows sends frequency f and level d/100 to the output driver of idx.   *)
C4_EnableAppliesValuesSetWhileDisabled ==
    [][ \A idx \in Probe :
          ( /\ Bound(idx)
            /\ ~mIsEnabledValue(idx)
            /\ call.idx = idx
            /\ call.op \in Setters
            /\ call.prev.op \in Setters
            /\ call'.op = "mTPEnable"
            /\ call'.idx = idx )
          => LET f == IF call.op = "mSetFrequency" THEN call.arg ELSE call.prev.arg
                 d == IF call.op = "mSetDutyCycle" THEN call.arg ELSE call.prev.arg
                 o == _OutputArray[idx]
             IN  /\ Sent(cmds', o, "update_frequency", f)
                 /\ Sent(cmds', o, "set_level", Level(d)) ]_vars

(* C5  Disable halts propagation: between an mTPDisable(idx) and the next   *)
(* mTPEnable(idx) no mSetFrequency or mSetDutyCycle on idx sends a          *)
(* frequency or a level to the output driver of idx; stated for the setter  *)
(* called right after mTPDisable(idx) on a bound index.                     *)
C5_DisableHaltsPropagation ==
    [][ \A idx \in Probe :
          ( /\ Bound(idx)
            /\ call.op = "mTPDisable"
            /\ call.idx = idx
            /\ lastTransition[_OutputArray[idx]] = "mTPDisable"
            /\ call'.op \in Setters
            /\ call'.idx = idx )
          => ~SentUpdate(cmds', _OutputArray[idx]) ]_vars

(* C6  Range invariant: an accessor called with idx < 0 or idx >= N returns *)
(* false / 0.0 and changes no switch, number, input, output driver or       *)
(* binding of any index (and commands no output driver).                    *)
C6_RangeInvariant ==
    [][ (call'.op \in AccessorOps /\ ~InRange(call'.idx))
        => /\ UNCHANGED <<bindings, _Initialized, objects, lastTransition, fault>>
           /\ call'.retBool = FALSE
           /\ call'.retFloat = 0
           /\ cmds' = <<>> ]_vars

\* C6's case: with 8 test points, all bound and test point 0 switched on and
\* driven, a setter has been called with index 8.
C6_Witness ==
    /\ DEF_TEST_POINTS = MAX_TEST_POINTS
    /\ _Initialized
    /\ call.op = "mSetFrequency"
    /\ call.idx = MAX_TEST_POINTS
    /\ call.arg \in FreqVals
    /\ switchTP[0]
    /\ outputTP[0].on

(* C7  Unbound slots are rejected safely: an accessor called with an index  *)
(* in [0, N) whose slot holds no binding behaves as for an invalid index    *)
(* (default return, nothing commanded) and dereferences no null binding.    *)
C7_UnboundSlotsRejected ==
    (call.op \in AccessorOps /\ Unbound(call.idx)) => (~fault /\ DefaultReturn)

(* C8  Unsupported-count handling: with N > 8, initialisation binds indices *)
(* 0..7 and leaves 8..N-1 unbound, and an accessor called with an index in  *)
(* [8, N) fails softly like an invalid index instead of faulting.           *)
C8_UnsupportedCount ==
    (DEF_TEST_POINTS > MAX_TEST_POINTS /\ _Initialized)
    => /\ \A i \in 0 .. (DEF_TEST_POINTS - 1) :
             IF i < MAX_TEST_POINTS THEN Bound(i) ELSE Unbound(i)
       /\ (call.op \in AccessorOps /\ call.idx \in MAX_TEST_POINTS .. (DEF_TEST_POINTS - 1))
             => (~fault /\ DefaultReturn)

(* C9  Idempotent initialisation: setup or mGet run on an initialised       *)
(* registry changes nothing, and the binding table it leaves is the table   *)
(* of exactly one initialisation.                                           *)
C9_IdempotentInitialization ==
    [][ (_Initialized /\ call'.op \in {"setup", "mGet"})
        => /\ UNCHANGED <<bindings, _Initialized, objects, lastTransition, fault>>
           /\ bindings' = OneInitialization ]_vars

\* C9's case: initialisation has run again on a registry that was already in
\* use (test point 0 is driven, which takes a binding).
C9_Witness ==
    /\ call.op = "setup"
    /\ _Initialized
    /\ outputTP[0].on
    /\ bindings = OneInitialization

(* C10  Enabled-output synchronisation: after any registry operation, for   *)
(* every bound index, if the test point is enabled the output driver's      *)
(* frequency is the stored frequency and its level the stored duty cycle    *)
(* divided by 100, and if it is disabled the operation sent no frequency    *)
(* and no level to its output driver.                                       *)
C10_EnabledOutputSynchronised ==
    call.op \in RegistryOps
    => \A idx \in Probe :
          Bound(idx)
          => LET o == _OutputArray[idx]
             IN  IF mIsEnabledValue(idx)
                    THEN /\ outputTP[o].frequency = mGetFrequencyValue(idx)
                         /\ outputTP[o].level = Level(mGetDutyCycleValue(idx))
                    ELSE ~SentUpdate(cmds, o)

----
\* C11  Enable ordering.  When mTPEnable(idx) has returned for an index that is
\* in range and bound, the commands it issued are exactly three, all to the
\* output driver of idx, in this order: turn_on, update_frequency with the
\* frequency stored for idx, set_level with the duty cycle stored for idx
\* divided by 100.  (mTPEnable writes neither number, so the values stored
\* after the call are the values stored when it ran.)
C11_EnableOrdering ==
    (call.op = "mTPEnable" /\ Bound(call.idx)) =>
        /\ Len(cmds) = 3
        /\ \A i \in 1 .. 3 : cmds[i].tp = _OutputArray[call.idx]
        /\ cmds[1].cmd = "turn_on"
        /\ cmds[2].cmd = "update_frequency"
        /\ cmds[2].val = numTPFrequency[_FrequencyArray[call.idx]]
        /\ cmds[3].cmd = "set_level"
        /\ cmds[3].val * 100 = numTPDutyCycle[_DutyCycleArray[call.idx]]

\* An enable of a bound index whose stored frequency and duty cycle are both
\* set, so that the two value-carrying commands differ from each other.
C11_Witness ==
    /\ call.op = "mTPEnable"
    /\ Bound(call.idx)
    /\ numTPFrequency[_FrequencyArray[call.idx]] \in FreqVals
    /\ numTPDutyCycle[_DutyCycleArray[call.idx]] \in DutyVals
    /\ Len(cmds) = 3

----
\* C12  Conditional propagation on set.  Every step in which mSetFrequency(idx, v)
\* returns for a bound index sends update_frequency(v), v unchanged, to the
\* output driver of idx when the switch of idx was on when the call started
\* (what mIsEnabled(idx) returns then), and sends nothing when it was off;
\* every step in which mSetDutyCycle(idx, v) returns sends set_level(v / 100)
\* when the switch was on and nothing when it was off.
C12_ConditionalPropagation ==
    [][(call'.op \in Setters /\ Bound(call'.idx) /\ ~fault') =>
          LET idx     == call'.idx
              enabled == switchTP[_SwitchArray[idx]]
              o       == _OutputArray[idx]
          IN  /\ enabled =>
                    /\ Len(cmds') = 1
                    /\ cmds'[1].tp = o
                    /\ call'.op = "mSetFrequency" =>
                          cmds'[1].cmd = "update_frequency" /\ cmds'[1].val = call'.arg
                    /\ call'.op = "mSetDutyCycle" =>
                          cmds'[1].cmd = "set_level" /\ cmds'[1].val * 100 = call'.arg
              /\ ~enabled => cmds' = <<>> /\ outputTP' = outputTP]_vars

\* A duty cycle set on an enabled test point has gone to the driver as a level,
\* a hundredth of the argument.
C12_Witness ==
    /\ call.op = "mSetDutyCycle"
    /\ Bound(call.idx)
    /\ call.arg \in DutyVals
    /\ switchTP[_SwitchArray[call.idx]]
    /\ Sent(cmds, _OutputArray[call.idx], "set_level", call.arg \div 100)

----
\* C13  Disable retains configuration.  Every step in which mTPDisable(idx)
\* returns for a bound index leaves the frequency and the duty cycle stored for
\* idx as they were; and every step in which mTPEnable(idx) returns directly
\* after mTPDisable(idx) sends the driver of idx the frequency stored when the
\* step starts and a hundredth of the duty cycle stored then, which by the
\* first half are the values stored before the disable.
C13_DisableRetainsConfiguration ==
    [][/\ (call'.op = "mTPDisable" /\ Bound(call'.idx) /\ ~fault') =>
             /\ numTPFrequency'[_FrequencyArray[call'.idx]]
                   = numTPFrequency[_FrequencyArray[call'.idx]]
             /\ numTPDutyCycle'[_DutyCycleArray[call'.idx]]
                   = numTPDutyCycle[_DutyCycleArray[call'.idx]]
       /\ (/\ call.op = "mTPDisable"
           /\ call'.op = "mTPEnable"
           /\ call'.idx = call.idx
           /\ Bound(call.idx)
           /\ ~fault') =>
             LET o == _OutputArray[call.idx]
                 f == numTPFrequency[_FrequencyArray[call.idx]]
                 d == numTPDutyCycle[_DutyCycleArray[call.idx]]
             IN  /\ Sent(cmds', o, "update_frequency", f)
                 /\ Sent(cmds', o, "set_level", d \div 100)
                 /\ outputTP'[o].frequency = f
                 /\ outputTP'[o].level * 100 = d]_vars

\* mTPEnable has returned directly after mTPDisable of the same bound index,
\* with a frequency and a duty cycle stored, and the driver runs at them.
C13_Witness ==
    /\ call.op = "mTPEnable"
    /\ call.prev.op = "mTPDisable"
    /\ Bound(call.idx)
    /\ numTPFrequency[_FrequencyArray[call.idx]] \in FreqVals
    /\ numTPDutyCycle[_DutyCycleArray[call.idx]] \in DutyVals
    /\ outputTP[_OutputArray[call.idx]].on
    /\ outputTP[_OutputArray[call.idx]].frequency = numTPFrequency[_FrequencyArray[call.idx]]

----
\* C14  Idempotent refresh.  Every step in which mTPEnable(idx) returns directly
\* after mTPEnable(idx), or mTPDisable(idx) directly after mTPDisable(idx), for
\* a bound index leaves the binding table, the initialized flag, the switches,
\* inputs and numbers and every output driver as the first call left them, and
\* the second call issues the same commands as the first (an enable re-applies
\* the current frequency and level).
C14_IdempotentRefresh ==
    [][(/\ call.op \in Transitions
        /\ call'.op = call.op
        /\ call'.idx = call.idx
        /\ Bound(call.idx)
        /\ ~fault') =>
            /\ UNCHANGED <<bindings, _Initialized, objects>>
            /\ cmds' = cmds
            /\ call.op = "mTPEnable" =>
                  /\ Sent(cmds', _OutputArray[call.idx], "update_frequency",
                          outputTP[_OutputArray[call.idx]].frequency)
                  /\ Sent(cmds', _OutputArray[call.idx], "set_level",
                          outputTP[_OutputArray[call.idx]].level)]_vars

\* mTPEnable has returned twice in a row for a bound index whose output runs at
\* a stored, non-zero frequency and level.
C14_Witness ==
    /\ call.op = "mTPEnable"
    /\ call.prev.op = "mTPEnable"
    /\ Bound(call.idx)
    /\ outputTP[_OutputArray[call.idx]].on
    /\ outputTP[_OutputArray[call.idx]].frequency \in FreqVals
    /\ outputTP[_OutputArray[call.idx]].level > 0

----
\* The four read accessors.
Getters == {"mIsEnabled", "mGetFrequency", "mGetDutyCycle", "mGetInputState"}

\* C15  Getters are pure reads.  Every step in which mIsEnabled, mGetFrequency,
\* mGetDutyCycle or mGetInputState returns, for an index that is out of range
\* or bound, changes no switch, number, input, output driver or binding (nor
\* the initialized flag), commands no driver, and for a bound index returns the
\* current state of the resource of that test point: switch idx, frequency
\* number idx, duty-cycle number idx, input idx.
C15_GettersArePureReads ==
    [][(call'.op \in Getters /\ (~InRange(call'.idx) \/ Bound(call'.idx))) =>
          LET idx == call'.idx
          IN  /\ UNCHANGED <<bindings, _Initialized, objects, lastTransition, fault>>
              /\ cmds' = <<>>
              /\ Bound(idx) =>
                    /\ call'.op = "mIsEnabled"     => call'.retBool  = switchTP[idx]
                    /\ call'.op = "mGetFrequency"  => call'.retFloat = numTPFrequency[idx]
                    /\ call'.op = "mGetDutyCycle"  => call'.retFloat = numTPDutyCycle[idx]
                    /\ call'.op = "mGetInputState" => call'.retBool  = inputTP[idx]]_vars

\* mGetDutyCycle has returned the stored duty cycle of a bound test point whose
\* stored frequency is a different, non-zero value.
C15_Witness ==
    /\ call.op = "mGetDutyCycle"
    /\ Bound(call.idx)
    /\ call.retFloat \in DutyVals
    /\ call.retFloat = numTPDutyCycle[call.idx]
    /\ numTPFrequency[call.idx] \in FreqVals

----
\* C16  Lazy one-time binding.  Every step in which mGet() returns ends with
\* the registry initialized and every slot below the supported eight bound to
\* the objects of its test point, so an accessor called on what mGet() returned
\* runs on an initialized registry; and no step that starts with the registry
\* initialized (a later mGet(), setup() or accessor call) changes an entry of
\* the five arrays or clears the flag.
C16_LazyOneTimeBinding ==
    [][/\ call'.op = "mGet" =>
             /\ _Initialized'
             /\ \A i \in 0 .. (DEF_TEST_POINTS - 1) :
                   i < MAX_TEST_POINTS =>
                      /\ _InputArray'[i] = i
                      /\ _OutputArray'[i] = i
                      /\ _DutyCycleArray'[i] = i
                      /\ _FrequencyArray'[i] = i
                      /\ _SwitchArray'[i] = i
       /\ _Initialized => (_Initialized' /\ UNCHANGED bindings)]_vars

\* mGet() has returned an initialized registry that no accessor has driven yet,
\* its first slot bound.
C16_Witness ==
    /\ call.op = "mGet"
    /\ _Initialized
    /\ Bound(0)
    /\ lastTransition[0] = "none"
    /\ ~outputTP[0].on

----
\* C19  Output on/off tracks the last transition.  In every reachable state and
\* for every test point, the output driver is on exactly when the most recent
\* of the mTPEnable/mTPDisable calls that reached it was mTPEnable; it is off
\* when neither has been called.  The record of the most recent transition
\* changes in mTPEnable and mTPDisable only, so a set or a get that switched a
\* driver on or off would break the equivalence.
C19_OutputTracksLastTransition ==
    \A k \in TP :
        /\ outputTP[k].on <=> lastTransition[k] = "mTPEnable"
        /\ lastTransition[k] = "none" => ~outputTP[k].on

\* A set has sent a value to the driver of an enabled (switch on) test point
\* whose last transition was mTPDisable, and the driver is still off.
C19_Witness ==
    /\ call.op \in Setters
    /\ Bound(call.idx)
    /\ switchTP[_SwitchArray[call.idx]]
    /\ SentUpdate(cmds, _OutputArray[call.idx])
    /\ lastTransition[_OutputArray[call.idx]] = "mTPDisable"
    /\ ~outputTP[_OutputArray[call.idx]].on

----
\* The test point is enabled (its switch is on, what mIsEnabled returns) and
\* its output driver runs at a frequency other than the stored one.
EnabledOutOfStep(idx) ==
    /\ Bound(idx)
    /\ switchTP[_SwitchArray[idx]]
    /\ outputTP[_OutputArray[idx]].frequency # numTPFrequency[_FrequencyArray[idx]]

\* C17  Non-atomic store-then-propagate.  On a host that runs every accessor as
\* one atomic step, no state reachable by mSetFrequency(idx, v) and
\* mTPEnable(idx) from a new registry has idx enabled with the driver's
\* frequency different from the stored frequency.  (That such a state is
\* reachable when the two calls interleave statement by statement is
\* C17_Witness.)
C17_AtomicAccessorsStayInStep ==
    ctx.mode = "atomic" => ~EnabledOutOfStep(RaceTP)

\* The two calls have interleaved statement by statement, both have returned,
\* and the enabled test point is left with the driver at another frequency
\* than the stored one: mTPEnable read the stored frequency, mSetFrequency
\* stored and propagated a new one, and mTPEnable then applied what it had read.
C17_Witness ==
    /\ ctx.mode = "interleaved"
    /\ ctx.setPc = "idle"
    /\ ctx.enPc = "idle"
    /\ call.op = "mTPEnable"
    /\ outputTP[_OutputArray[RaceTP]].on
    /\ EnabledOutOfStep(RaceTP)

----
\* C18  Per-index isolation.  For the two test points in use, i # j, both
\* bound: every step in which an accessor called with index i returns
\* (mTPEnable, mTPDisable, mSetFrequency, mSetDutyCycle or a getter) leaves the
\* switch, the input, the stored frequency, the stored duty cycle and the
\* output driver that the slots of j point to exactly as they were.
C18_PerIndexIsolation ==
    [][\A i \in PairTP, j \in PairTP :
          (i # j /\ call'.op \in AccessorOps /\ call'.idx = i /\ Bound(i) /\ Bound(j)) =>
             /\ switchTP'[_SwitchArray[j]] = switchTP[_SwitchArray[j]]
             /\ inputTP'[_InputArray[j]] = inputTP[_InputArray[j]]
             /\ numTPFrequency'[_FrequencyArray[j]] = numTPFrequency[_FrequencyArray[j]]
             /\ numTPDutyCycle'[_DutyCycleArray[j]] = numTPDutyCycle[_DutyCycleArray[j]]
             /\ outputTP'[_OutputArray[j]] = outputTP[_OutputArray[j]]]_vars

\* mTPDisable(0) has returned while test point 1 is enabled and running at a
\* stored frequency and a level: the other test point had state to lose.
C18_Witness ==
    /\ call.op = "mTPDisable"
    /\ call.idx = 0
    /\ Bound(0)
    /\ Bound(1)
    /\ ~outputTP[_OutputArray[0]].on
    /\ switchTP[_SwitchArray[1]]
    /\ outputTP[_OutputArray[1]].on
    /\ outputTP[_OutputArray[1]].frequency \in FreqVals
    /\ outputTP[_OutputArray[1]].level > 0
    /\ numTPFrequency[_FrequencyArray[1]] \in FreqVals

====
